---- MODULE Spec2Model ----
(***************************************************************************)
(* graph-fns: an adjacency-matrix graph library of pure functions.         *)
(*                                                                         *)
(* A Graph is a JavaScript object of row objects.  Objects have identity   *)
(* and an insertion order of their keys, so the model keeps a heap: a      *)
(* sequence of objects, an object being its keys in insertion order and    *)
(* the value stored under each key.  A graph object stores the heap index  *)
(* of a row object under each vertex; a row object stores a weight under   *)
(* each vertex.  Every function of the library takes the heap and the      *)
(* index of the graph it is called on.                                     *)
(***************************************************************************)
EXTENDS Integers, Sequences, FiniteSets, TLC

\* ------------------------------------------------------------------ bounds
\* Vertices and edges of the unweighted graphs (every edge of weight 1) the
\* queries are called on; a reciprocal pair of an undirected graph counts as
\* one edge.
MaxOrder == 3
MaxEdges == 3
\* Vertices and edges of the weighted graphs the queries are called on.
MaxWeightedOrder == 2
MaxWeightedEdges == 2
\* Largest edge weight; weights range over -1 .. MaxWeight.
MaxWeight == 2
\* Vertex names the chain of transforms draws from.
MaxNames == 2
\* Largest weight a caller of the chain writes with setEdge.
MaxSetWeight == 1
MaxNodes == 2
MaxLinks == 3

VertexNames == <<"a", "b", "c", "d", "e">>
Names(n) == {VertexNames[i] : i \in 1..n}
Weights == (-1) .. MaxWeight

Range(s) == {s[i] : i \in DOMAIN s}
IndexOf(s, x) == CHOOSE i \in DOMAIN s : s[i] = x

RECURSIVE SumSeq(_)
SumSeq(s) == IF s = <<>> THEN 0 ELSE s[1] + SumSeq(Tail(s))

RECURSIVE Flatten(_)
Flatten(ss) == IF ss = <<>> THEN <<>> ELSE ss[1] \o Flatten(Tail(ss))

\* ------------------------------------------------------------- JS objects
\* {} : an object with no keys.
EmptyObj == [keys |-> <<>>, val |-> <<>>]
\* o[k] = x : a new key is appended to the insertion order, an existing key
\* keeps its place.
SetProp(o, k, x) ==
  IF k \in DOMAIN o.val
    THEN [o EXCEPT !.val = [j \in DOMAIN o.val |-> IF j = k THEN x ELSE o.val[j]]]
    ELSE [keys |-> Append(o.keys, k),
          val |-> [j \in DOMAIN o.val \cup {k} |-> IF j = k THEN x ELSE o.val[j]]]
\* The object whose keys, written in the order ks (no duplicates), hold the
\* values of the function f.
ObjOf(ks, f) == [keys |-> ks, val |-> [k \in Range(ks) |-> f[k]]]
\* The pairs of keys of ks.
Cells(ks) == Range(ks) \X Range(ks)
\* The keys of a sequence in first-occurrence order (writing a key again
\* keeps its place).
RECURSIVE Dedup(_)
Dedup(s) ==
  IF s = <<>> THEN <<>>
  ELSE LET r == Dedup(SubSeq(s, 1, Len(s) - 1)) IN
       IF s[Len(s)] \in Range(r) THEN r ELSE Append(r, s[Len(s)])

\* ------------------------------------------------------------------- heap
\* Object.keys(graph), for (const u in graph)
Keys(h, g) == h[g].keys
\* vertex in graph
HasVertex(h, g, u) == u \in DOMAIN h[g].val
\* graph[u]
Row(h, g, u) == h[h[g].val[u]]
\* graph[u][v] is not undefined
HasCell(h, g, u, v) == HasVertex(h, g, u) /\ v \in DOMAIN Row(h, g, u).val
\* graph[u][v]
Cell(h, g, u, v) == Row(h, g, u).val[v]
\* graph[u][v] !== 0 (undefined is not 0)
NonZero(h, g, u, v) == ~HasCell(h, g, u, v) \/ Cell(h, g, u, v) # 0
\* result[u][v] = x on the object graph result of heap h
SetCell(h, g, u, v, x) ==
  [h EXCEPT ![h[g].val[u]] = SetProp(h[h[g].val[u]], v, x)]

\* The value of a graph: its rows in place of their heap indices.
Deref(h, g) == [keys |-> h[g].keys, val |-> [u \in DOMAIN h[g].val |-> h[h[g].val[u]]]]
\* A heap holding just the graph of value gv: its rows, then the graph object.
Load(gv) ==
  LET n == Len(gv.keys) IN
  [h |-> [i \in 1..(n + 1) |->
            IF i <= n THEN gv.val[gv.keys[i]]
            ELSE [keys |-> gv.keys, val |-> [u \in Range(gv.keys) |-> IndexOf(gv.keys, u)]]],
   ret |-> n + 1]

\* A function's outcome: it returned a value, or it threw.
Return(x) == [threw |-> FALSE, value |-> x]
Throw == [threw |-> TRUE]
\* The values undefined and NaN.
Undefined == "undefined"
NaN == "NaN"

\* ------------------------------------------------------------- transforms
\* A transform returns the heap after the call and the index of the graph
\* it returns: [h, ret]; it returns Throw when it reads or writes a property
\* of a row that is undefined (a TypeError).

\* const result = {}; for u of ks { result[u] = {}; for v of ks { result[u][v] = cell[u, v] } }
\* Fresh row objects and a fresh graph object are appended to the heap.
NewGraph(h, ks, cell) ==
  LET n == Len(h)
      rows == [i \in 1..Len(ks) |-> ObjOf(ks, [v \in Range(ks) |-> cell[<<ks[i], v>>]])]
      result == ObjOf(ks, [u \in Range(ks) |-> n + IndexOf(ks, u)])
  IN [h |-> h \o rows \o <<result>>, ret |-> n + Len(ks) + 1]

\* A copy of the graph object alone, sharing the rows of its input.
cloneShallow(h, g) == [h |-> Append(h, h[g]), ret |-> Len(h) + 1]
clone(h, g) ==
  LET n == Len(h)
      ks == Keys(h, g)
      rows == [i \in 1..Len(ks) |-> Row(h, g, ks[i])]
      result == ObjOf(ks, [u \in Range(ks) |-> n + IndexOf(ks, u)])
  IN [h |-> h \o rows \o <<result>>, ret |-> n + Len(ks) + 1]

create(h, vertices) ==
  NewGraph(h, Dedup(vertices), [e \in Cells(vertices) |-> 0])

\* addEdge writing the weight 1 whatever the current weight is.
addEdgeOverwrite(h, g, u, v, undirected) ==
  LET r == clone(h, g) IN
  IF ~HasVertex(r.h, r.ret, u) \/ (undirected /\ ~HasVertex(r.h, r.ret, v)) THEN Throw
  ELSE LET h1 == SetCell(r.h, r.ret, u, v, 1)
           h2 == IF undirected THEN SetCell(h1, r.ret, v, u, 1) ELSE h1
       IN [h |-> h2, ret |-> r.ret]
addEdge(h, g, u, v, undirected) ==
  LET r == clone(h, g) IN
  IF ~HasVertex(r.h, r.ret, u) \/ (undirected /\ ~HasVertex(r.h, r.ret, v)) THEN Throw
  ELSE LET h1 == IF HasCell(r.h, r.ret, u, v) /\ Cell(r.h, r.ret, u, v) = 0
                   THEN SetCell(r.h, r.ret, u, v, 1) ELSE r.h
           h2 == IF undirected /\ HasCell(h1, r.ret, v, u) /\ Cell(h1, r.ret, v, u) = 0
                   THEN SetCell(h1, r.ret, v, u, 1) ELSE h1
       IN [h |-> h2, ret |-> r.ret]

\* addVertex without the new column in the existing rows.
addVertexNoColumn(h, g, vertex) ==
  IF HasVertex(h, g, vertex) THEN [h |-> h, ret |-> g]
  ELSE LET r == clone(h, g)
           ks == Keys(r.h, r.ret)
           row == ObjOf(Append(ks, vertex), [v \in Range(ks) \cup {vertex} |-> 0])
       IN [h |-> [i \in 1..(Len(r.h) + 1) |->
                    IF i = r.ret THEN SetProp(r.h[r.ret], vertex, Len(r.h) + 1)
                    ELSE IF i = Len(r.h) + 1 THEN row
                    ELSE r.h[i]],
           ret |-> r.ret]
\* addVertex without the early return for a vertex of the graph.
addVertexAgain(h, g, vertex) ==
  LET r == clone(h, g)
      ks == Keys(r.h, r.ret)
      rowIds == {r.h[r.ret].val[v] : v \in Range(ks)}
      h1 == [i \in DOMAIN r.h |->
               IF i \in rowIds THEN SetProp(r.h[i], vertex, 0) ELSE r.h[i]]
      ks1 == IF vertex \in Range(ks) THEN ks ELSE Append(ks, vertex)
      row == ObjOf(ks1, [v \in Range(ks1) |-> 0])
  IN [h |-> [i \in 1..(Len(h1) + 1) |->
               IF i = r.ret THEN SetProp(h1[r.ret], vertex, Len(h1) + 1)
               ELSE IF i = Len(h1) + 1 THEN row
               ELSE h1[i]],
      ret |-> r.ret]
addVertex(h, g, vertex) ==
  IF HasVertex(h, g, vertex) THEN [h |-> h, ret |-> g]
  ELSE LET r == clone(h, g)
           ks == Keys(r.h, r.ret)
           rowIds == {r.h[r.ret].val[v] : v \in Range(ks)}
           \* for (const v of Object.keys(result)) result[v][vertex] = 0
           h1 == [i \in DOMAIN r.h |->
                    IF i \in rowIds THEN SetProp(r.h[i], vertex, 0) ELSE r.h[i]]
           \* result[vertex] = {}; for (const v of Object.keys(result)) result[vertex][v] = 0
           row == ObjOf(Append(ks, vertex), [v \in Range(ks) \cup {vertex} |-> 0])
       IN [h |-> [i \in 1..(Len(h1) + 1) |->
                    IF i = r.ret THEN SetProp(h1[r.ret], vertex, Len(h1) + 1)
                    ELSE IF i = Len(h1) + 1 THEN row
                    ELSE h1[i]],
           ret |-> r.ret]

\* removeVertex dropping the row of vertex and keeping its column.
removeVertexKeepColumn(h, g, vertex) ==
  LET newVertices == SelectSeq(Keys(h, g), LAMBDA x : x # vertex)
      n == Len(h)
      rows == [i \in 1..Len(newVertices) |-> Row(h, g, newVertices[i])]
      result == ObjOf(newVertices, [u \in Range(newVertices) |-> n + IndexOf(newVertices, u)])
  IN [h |-> h \o rows \o <<result>>, ret |-> n + Len(newVertices) + 1]
removeVertex(h, g, vertex) ==
  LET newVertices == SelectSeq(Keys(h, g), LAMBDA x : x # vertex)
  IN NewGraph(h, newVertices, [e \in Cells(newVertices) |-> Cell(h, g, e[1], e[2])])

\* removeEdge clearing graph[u][v] alone whatever the option says.
removeEdgeOneWay(h, g, u, v, undirected) ==
  LET r == clone(h, g) IN
  IF ~HasVertex(r.h, r.ret, u) THEN Throw
  ELSE [h |-> SetCell(r.h, r.ret, u, v, 0), ret |-> r.ret]
\* removeEdge taking 1 off the weight of the edge.
removeEdgeDecrement(h, g, u, v, undirected) ==
  LET r == clone(h, g) IN
  IF ~HasVertex(r.h, r.ret, u) \/ (undirected /\ ~HasVertex(r.h, r.ret, v)) THEN Throw
  ELSE LET h1 == IF HasCell(r.h, r.ret, u, v) /\ Cell(r.h, r.ret, u, v) # 0
                   THEN SetCell(r.h, r.ret, u, v, Cell(r.h, r.ret, u, v) - 1) ELSE r.h
           h2 == IF undirected /\ HasCell(h1, r.ret, v, u) /\ Cell(h1, r.ret, v, u) # 0
                   THEN SetCell(h1, r.ret, v, u, Cell(h1, r.ret, v, u) - 1) ELSE h1
       IN [h |-> h2, ret |-> r.ret]
removeEdge(h, g, u, v, undirected) ==
  LET r == clone(h, g) IN
  IF ~HasVertex(r.h, r.ret, u) \/ (undirected /\ ~HasVertex(r.h, r.ret, v)) THEN Throw
  ELSE LET h1 == SetCell(r.h, r.ret, u, v, 0)
           h2 == IF undirected THEN SetCell(h1, r.ret, v, u, 0) ELSE h1
       IN [h |-> h2, ret |-> r.ret]

\* setEdge writing both directions whatever the option says.
setEdgeBothWays(h, g, u, v, weight, undirected) ==
  LET r == clone(h, g) IN
  IF ~HasVertex(r.h, r.ret, u) \/ ~HasVertex(r.h, r.ret, v) THEN Throw
  ELSE [h |-> SetCell(SetCell(r.h, r.ret, u, v, weight), r.ret, v, u, weight), ret |-> r.ret]
setEdge(h, g, u, v, weight, undirected) ==
  LET r == clone(h, g) IN
  IF ~HasVertex(r.h, r.ret, u) \/ (undirected /\ ~HasVertex(r.h, r.ret, v)) THEN Throw
  ELSE LET h1 == SetCell(r.h, r.ret, u, v, weight)
           h2 == IF undirected THEN SetCell(h1, r.ret, v, u, weight) ELSE h1
       IN [h |-> h2, ret |-> r.ret]

\* getEdge reading graph[u]?.[v].
getEdgeOptional(h, g, u, v) ==
  IF HasCell(h, g, u, v) THEN Return(Cell(h, g, u, v)) ELSE Return(Undefined)
\* graph[u][v]: a TypeError when graph[u] is undefined
getEdge(h, g, u, v) ==
  IF ~HasVertex(h, g, u) THEN Throw
  ELSE IF HasCell(h, g, u, v) THEN Return(Cell(h, g, u, v)) ELSE Return(Undefined)

\* vertexPairs with the inner loop stopping at the vertex after vertices[u].
vertexPairsAdjacent(h, g) ==
  LET vertices == Keys(h, g)
      n == Len(vertices)
  IN Flatten([u \in 1..n |->
                [k \in 1..(IF u < n THEN 2 ELSE 1) |-> <<vertices[u], vertices[u + k - 1]>>]])
\* The pairs [vertices[u], vertices[v]] with u <= v, in the order they are added.
vertexPairs(h, g) ==
  LET vertices == Keys(h, g)
      n == Len(vertices)
  IN Flatten([u \in 1..n |-> [k \in 1..(n - u + 1) |-> <<vertices[u], vertices[u + k - 1]>>]])

\* graph[u]?.[v] !== graph[v]?.[u] for no pair (undefined === undefined)
isUndirected(h, g) ==
  \A p \in Range(vertexPairs(h, g)) :
    IF HasCell(h, g, p[1], p[2]) /\ HasCell(h, g, p[2], p[1])
      THEN Cell(h, g, p[1], p[2]) = Cell(h, g, p[2], p[1])
      ELSE HasCell(h, g, p[1], p[2]) = HasCell(h, g, p[2], p[1])

\* The merge functions a caller passes to makeUndirected; "max" is the default.
MergeFns == {"max", "min", "sum", "first"}
Merge(m, a, b) ==
  CASE m = "max" -> IF a >= b THEN a ELSE b
    [] m = "min" -> IF a <= b THEN a ELSE b
    [] m = "sum" -> a + b
    [] m = "first" -> a

RECURSIVE makeUndirectedFrom(_, _, _, _, _, _)
\* The loop of makeUndirected without the test u === v: a loop is merged
\* with itself.
makeUndirectedFromMergeLoops(h, g, result, merge, pairs, k) ==
  IF k > Len(pairs) THEN h
  ELSE LET u == pairs[k][1]
           v == pairs[k][2]
           weight ==
             IF Cell(h, g, u, v) = 0 \/ Cell(h, g, v, u) = 0
               THEN (IF Cell(h, g, u, v) # 0 THEN Cell(h, g, u, v) ELSE Cell(h, g, v, u))
               ELSE Merge(merge, Cell(h, g, u, v), Cell(h, g, v, u))
       IN makeUndirectedFrom(SetCell(SetCell(h, result, u, v, weight), result, v, u, weight),
                             g, result, merge, pairs, k + 1)
\* The loop of makeUndirected without result[v][u] = weight.
makeUndirectedFromOneWay(h, g, result, merge, pairs, k) ==
  IF k > Len(pairs) THEN h
  ELSE LET u == pairs[k][1]
           v == pairs[k][2]
           weight ==
             IF u = v \/ Cell(h, g, u, v) = 0 \/ Cell(h, g, v, u) = 0
               THEN (IF Cell(h, g, u, v) # 0 THEN Cell(h, g, u, v) ELSE Cell(h, g, v, u))
               ELSE Merge(merge, Cell(h, g, u, v), Cell(h, g, v, u))
       IN makeUndirectedFrom(SetCell(h, result, u, v, weight), g, result, merge, pairs, k + 1)
makeUndirectedFrom(h, g, result, merge, pairs, k) ==
  IF k > Len(pairs) THEN h
  ELSE LET u == pairs[k][1]
           v == pairs[k][2]
           weight ==
             IF u = v \/ Cell(h, g, u, v) = 0 \/ Cell(h, g, v, u) = 0
               THEN (IF Cell(h, g, u, v) # 0 THEN Cell(h, g, u, v) ELSE Cell(h, g, v, u))
               ELSE Merge(merge, Cell(h, g, u, v), Cell(h, g, v, u))
       IN makeUndirectedFrom(SetCell(SetCell(h, result, u, v, weight), result, v, u, weight),
                             g, result, merge, pairs, k + 1)
makeUndirected(h, g, merge) ==
  LET r == clone(h, g)
  IN [h |-> makeUndirectedFrom(r.h, g, r.ret, merge, vertexPairs(h, g), 1), ret |-> r.ret]

\* toDirected keeping graph[u][v] for v > u only.
toDirectedStrict(h, g) ==
  IF ~isUndirected(h, g) THEN [h |-> h, ret |-> g]
  ELSE LET vertices == Keys(h, g)
       IN NewGraph(h, vertices,
                   [e \in Cells(vertices) |->
                      IF IndexOf(vertices, e[2]) > IndexOf(vertices, e[1])
                        THEN Cell(h, g, e[1], e[2]) ELSE 0])
\* toDirected keeping graph[u][v] for v at or before u.
toDirectedLower(h, g) ==
  IF ~isUndirected(h, g) THEN [h |-> h, ret |-> g]
  ELSE LET vertices == Keys(h, g)
       IN NewGraph(h, vertices,
                   [e \in Cells(vertices) |->
                      IF IndexOf(vertices, e[2]) <= IndexOf(vertices, e[1])
                        THEN Cell(h, g, e[1], e[2]) ELSE 0])
toDirected(h, g) ==
  IF ~isUndirected(h, g) THEN [h |-> h, ret |-> g]
  ELSE LET vertices == Keys(h, g)
       IN NewGraph(h, vertices,
                   [e \in Cells(vertices) |->
                      IF IndexOf(vertices, e[2]) >= IndexOf(vertices, e[1])
                        THEN Cell(h, g, e[1], e[2]) ELSE 0])

\* transpose writing result[u][v] = graph[u][v].
transposeNoSwap(h, g) ==
  NewGraph(h, Keys(h, g), [e \in Cells(Keys(h, g)) |-> Cell(h, g, e[1], e[2])])
transpose(h, g) ==
  NewGraph(h, Keys(h, g), [e \in Cells(Keys(h, g)) |-> Cell(h, g, e[2], e[1])])

\* ---------------------------------------------------------------- queries
\* indegree leaving out the loop on vertex.
indegreeNoLoop(h, g, vertex, weighted) ==
  LET ks == Keys(h, g)
  IN IF weighted /\ \E u \in Range(ks) : ~HasCell(h, g, u, vertex) THEN NaN
     ELSE
     SumSeq([k \in 1..Len(ks) |->
               IF ks[k] # vertex /\ NonZero(h, g, ks[k], vertex)
                 THEN (IF weighted THEN Cell(h, g, ks[k], vertex) ELSE 1)
                 ELSE 0])
\* result += undefined makes the result NaN, and it stays NaN.
indegree(h, g, vertex, weighted) ==
  LET ks == Keys(h, g)
  IN IF weighted /\ \E u \in Range(ks) : ~HasCell(h, g, u, vertex) THEN NaN
     ELSE
     SumSeq([k \in 1..Len(ks) |->
               IF NonZero(h, g, ks[k], vertex)
                 THEN (IF weighted THEN Cell(h, g, ks[k], vertex) ELSE 1)
                 ELSE 0])

\* outdegree leaving out the loop on vertex.
outdegreeNoLoop(h, g, vertex, weighted) ==
  LET ks == IF HasVertex(h, g, vertex) THEN Row(h, g, vertex).keys ELSE <<>>
  IN SumSeq([k \in 1..Len(ks) |->
               IF ks[k] # vertex /\ Cell(h, g, vertex, ks[k]) # 0
                 THEN (IF weighted THEN Cell(h, g, vertex, ks[k]) ELSE 1)
                 ELSE 0])
\* for (const v in undefined) has no iterations
outdegree(h, g, vertex, weighted) ==
  LET ks == IF HasVertex(h, g, vertex) THEN Row(h, g, vertex).keys ELSE <<>>
  IN SumSeq([k \in 1..Len(ks) |->
               IF Cell(h, g, vertex, ks[k]) # 0
                 THEN (IF weighted THEN Cell(h, g, vertex, ks[k]) ELSE 1)
                 ELSE 0])

\* degree summing the weights whatever the option weighted says.
degreeWeighted(h, g, vertex, weighted, undirected) ==
  IF undirected /\ ~isUndirected(h, g) THEN Throw
  ELSE LET r == IF undirected THEN toDirected(h, g) ELSE [h |-> h, ret |-> g]
       IN Return(indegree(r.h, r.ret, vertex, TRUE) + outdegree(r.h, r.ret, vertex, TRUE))
degree(h, g, vertex, weighted, undirected) ==
  IF undirected /\ ~isUndirected(h, g) THEN Throw
  ELSE LET r == IF undirected THEN toDirected(h, g) ELSE [h |-> h, ret |-> g]
       IN Return(indegree(r.h, r.ret, vertex, weighted)
                 + outdegree(r.h, r.ret, vertex, weighted))

\* The edges in the order they are added to the result set.
edges(h, g, undirected) ==
  IF undirected /\ ~isUndirected(h, g) THEN Throw
  ELSE LET r == IF undirected THEN toDirected(h, g) ELSE [h |-> h, ret |-> g]
           vertices == Keys(r.h, r.ret)
           n == Len(vertices)
       IN Return(Flatten([u \in 1..n |->
                   SelectSeq([v \in 1..n |-> <<vertices[u], vertices[v]>>],
                             LAMBDA e : NonZero(r.h, r.ret, e[1], e[2]))]))

order(h, g) == Len(Keys(h, g))

\* size without the check of the undirected precondition.
sizeUnchecked(h, g, undirected) ==
  LET r == IF undirected THEN toDirected(h, g) ELSE [h |-> h, ret |-> g]
      us == Keys(r.h, r.ret)
  IN Return(SumSeq([u \in 1..Len(us) |->
              LET vs == Row(r.h, r.ret, us[u]).keys
              IN SumSeq([v \in 1..Len(vs) |->
                           IF Cell(r.h, r.ret, us[u], vs[v]) # 0 THEN 1 ELSE 0])]))
size(h, g, undirected) ==
  IF undirected /\ ~isUndirected(h, g) THEN Throw
  ELSE LET r == IF undirected THEN toDirected(h, g) ELSE [h |-> h, ret |-> g]
           us == Keys(r.h, r.ret)
       IN Return(SumSeq([u \in 1..Len(us) |->
                   LET vs == Row(r.h, r.ret, us[u]).keys
                   IN SumSeq([v \in 1..Len(vs) |->
                                IF Cell(r.h, r.ret, us[u], vs[v]) # 0 THEN 1 ELSE 0])]))

\* let i = weight; do { links.push(..); i -= 1 } while (i > 0): the number of links pushed.
RECURSIVE toD3Links(_)
toD3Links(i) == IF i - 1 > 0 THEN 1 + toD3Links(i - 1) ELSE 1

toD3(h, g, undirected) ==
  IF undirected /\ ~isUndirected(h, g) THEN Throw
  ELSE LET r == IF undirected THEN toDirected(h, g) ELSE [h |-> h, ret |-> g]
           vertices == Keys(r.h, r.ret)
           n == Len(vertices)
       IN Return([nodes |-> vertices,
                  links |-> Flatten([u \in 1..n |-> Flatten([v \in 1..n |->
                    IF NonZero(r.h, r.ret, vertices[u], vertices[v])
                      THEN [k \in 1..toD3Links(Cell(r.h, r.ret, vertices[u], vertices[v])) |->
                              [source |-> vertices[u], target |-> vertices[v]]]
                      ELSE <<>>])])])

\* graph[vertex][v] is a TypeError when graph[vertex] is undefined
\* ------------------------------------------------------------------ D3
\* A D3Graph is [nodes, links]: the ids of its nodes and the links
\* [source, target], both in array order.

\* result[u][v] = result[u][v] === 0 ? 1 : result[u][v] + 1; when v is not a
\* node the weight is undefined at first, then NaN: undefined + 1 and
\* NaN + 1 are NaN.
fromD3Count(h, result, u, v) ==
  SetCell(h, result, u, v,
          IF ~HasVertex(h, result, v) THEN NaN
          ELSE IF Cell(h, result, u, v) = 0 THEN 1 ELSE Cell(h, result, u, v) + 1)

RECURSIVE fromD3Links(_, _, _, _, _)
\* The loop over d3Graph.links giving a linked pair the weight 1 however many
\* links it has.
fromD3LinksOnce(h, result, links, k, undirected) ==
  IF k > Len(links) THEN [h |-> h, ret |-> result]
  ELSE LET u == links[k].source
           v == links[k].target
       IN IF ~HasVertex(h, result, u) \/ (undirected /\ u # v /\ ~HasVertex(h, result, v))
            THEN Throw
          ELSE LET h1 == SetCell(h, result, u, v, 1)
                   h2 == IF undirected /\ u # v THEN SetCell(h1, result, v, u, 1) ELSE h1
               IN fromD3Links(h2, result, links, k + 1, undirected)
\* for (const { source: u, target: v } of d3Graph.links), from the k-th link on
fromD3Links(h, result, links, k, undirected) ==
  IF k > Len(links) THEN [h |-> h, ret |-> result]
  ELSE LET u == links[k].source
           v == links[k].target
       IN IF ~HasVertex(h, result, u) \/ (undirected /\ u # v /\ ~HasVertex(h, result, v))
            THEN Throw
          ELSE LET h1 == fromD3Count(h, result, u, v)
                   h2 == IF undirected /\ u # v THEN fromD3Count(h1, result, v, u) ELSE h1
               IN fromD3Links(h2, result, links, k + 1, undirected)

\* fromD3 mirroring every link whatever the option says.
fromD3Mirrored(h, d3Graph, undirected) ==
  LET r == NewGraph(h, Dedup(d3Graph.nodes), [e \in Cells(d3Graph.nodes) |-> 0])
  IN fromD3Links(r.h, r.ret, d3Graph.links, 1, TRUE)
fromD3(h, d3Graph, undirected) ==
  LET r == NewGraph(h, Dedup(d3Graph.nodes), [e \in Cells(d3Graph.nodes) |-> 0])
  IN fromD3Links(r.h, r.ret, d3Graph.links, 1, undirected)

\* graph[vertex][v] is a TypeError when graph[vertex] is undefined
children(h, g, vertex) ==
  IF Keys(h, g) # <<>> /\ ~HasVertex(h, g, vertex) THEN Throw
  ELSE Return({v \in Range(Keys(h, g)) : NonZero(h, g, vertex, v)})

\* parents reading graph[vertex][u] in place of graph[u][vertex].
parentsOfRow(h, g, vertex) ==
  {u \in Range(Keys(h, g)) : NonZero(h, g, vertex, u)}
parents(h, g, vertex) ==
  {u \in Range(Keys(h, g)) : NonZero(h, g, u, vertex)}

\* ------------------------------------------------------- cycle detection
\* The recursive searches return whether a cycle was found together with the
\* sets they mutate.
RECURSIVE _isCyclicDirected(_, _, _, _, _), isCyclicDirectedLoop(_, _, _, _, _, _)
_isCyclicDirected(h, g, visited, path, vertex) ==
  isCyclicDirectedLoop(h, g, visited \cup {vertex}, path \cup {vertex}, vertex, 1)
\* The directed search without path.delete(vertex).
isCyclicDirectedLoopKeepPath(h, g, visited, path, vertex, k) ==
  LET ks == Row(h, g, vertex).keys IN
  IF k > Len(ks)
    THEN [found |-> FALSE, visited |-> visited, path |-> path]
  ELSE IF Cell(h, g, vertex, ks[k]) # 0
    THEN IF ks[k] \in path
           THEN [found |-> TRUE, visited |-> visited, path |-> path]
           ELSE LET r == _isCyclicDirected(h, g, visited, path, ks[k])
                IN IF r.found THEN r
                   ELSE isCyclicDirectedLoop(h, g, r.visited, r.path, vertex, k + 1)
    ELSE isCyclicDirectedLoop(h, g, visited, path, vertex, k + 1)
\* for (const i in graph[vertex]), from the k-th key on
isCyclicDirectedLoop(h, g, visited, path, vertex, k) ==
  LET ks == Row(h, g, vertex).keys IN
  IF k > Len(ks)
    THEN [found |-> FALSE, visited |-> visited, path |-> path \ {vertex}]
  ELSE IF Cell(h, g, vertex, ks[k]) # 0
    THEN IF ks[k] \in path
           THEN [found |-> TRUE, visited |-> visited, path |-> path]
           ELSE LET r == _isCyclicDirected(h, g, visited, path, ks[k])
                IN IF r.found THEN r
                   ELSE isCyclicDirectedLoop(h, g, r.visited, r.path, vertex, k + 1)
    ELSE isCyclicDirectedLoop(h, g, visited, path, vertex, k + 1)

\* parent is a vertex, or Undefined at the root of a search.
RECURSIVE _isCyclicUndirected(_, _, _, _, _), isCyclicUndirectedLoop(_, _, _, _, _, _)
_isCyclicUndirected(h, g, visited, parent, vertex) ==
  isCyclicUndirectedLoop(h, g, visited \cup {vertex}, parent, vertex, 1)
\* The undirected search taking every visited neighbour, the parent
\* included, for a cycle.
isCyclicUndirectedLoopAnyVisited(h, g, visited, parent, vertex, k) ==
  LET ks == Row(h, g, vertex).keys IN
  IF k > Len(ks)
    THEN [found |-> FALSE, visited |-> visited]
  ELSE IF Cell(h, g, vertex, ks[k]) # 0
    THEN IF ks[k] \in visited
           THEN [found |-> TRUE, visited |-> visited]
           ELSE LET r == _isCyclicUndirected(h, g, visited, vertex, ks[k])
                IN IF r.found THEN r
                   ELSE isCyclicUndirectedLoop(h, g, r.visited, parent, vertex, k + 1)
    ELSE isCyclicUndirectedLoop(h, g, visited, parent, vertex, k + 1)
isCyclicUndirectedLoop(h, g, visited, parent, vertex, k) ==
  LET ks == Row(h, g, vertex).keys IN
  IF k > Len(ks)
    THEN [found |-> FALSE, visited |-> visited]
  ELSE IF Cell(h, g, vertex, ks[k]) # 0
    THEN IF ks[k] \in visited
           THEN IF ks[k] # parent
                  THEN [found |-> TRUE, visited |-> visited]
                  ELSE isCyclicUndirectedLoop(h, g, visited, parent, vertex, k + 1)
           ELSE LET r == _isCyclicUndirected(h, g, visited, vertex, ks[k])
                IN IF r.found THEN r
                   ELSE isCyclicUndirectedLoop(h, g, r.visited, parent, vertex, k + 1)
    ELSE isCyclicUndirectedLoop(h, g, visited, parent, vertex, k + 1)

\* for (const i in graph), from the k-th key on
RECURSIVE isCyclicLoop(_, _, _, _, _)
isCyclicLoop(h, g, undirected, visited, k) ==
  LET ks == Keys(h, g) IN
  IF k > Len(ks) THEN FALSE
  ELSE IF ks[k] \in visited THEN isCyclicLoop(h, g, undirected, visited, k + 1)
  ELSE LET r == IF undirected
                  THEN _isCyclicUndirected(h, g, visited, Undefined, ks[k])
                  ELSE _isCyclicDirected(h, g, visited, {}, ks[k])
       IN IF r.found THEN TRUE ELSE isCyclicLoop(h, g, undirected, r.visited, k + 1)

isCyclic(h, g, undirected) ==
  IF undirected /\ ~isUndirected(h, g) THEN Throw
  ELSE Return(isCyclicLoop(h, g, undirected, {}, 1))

\* ---------------------------------------------------------------- closures
RECURSIVE ancestors(_, _, _)
ancestors(h, g, vertex) ==
  IF isCyclic(h, g, FALSE).value THEN Throw
  ELSE LET rs == [parent \in parents(h, g, vertex) |-> ancestors(h, g, parent)]
       IN IF \E parent \in DOMAIN rs : rs[parent].threw THEN Throw
          ELSE Return(UNION {{parent} \cup rs[parent].value : parent \in DOMAIN rs})

RECURSIVE descendants(_, _, _)
\* descendants looking for cycles among the vertices reached from vertex only.
descendantsLocalCheck(h, g, vertex) ==
  IF _isCyclicDirected(h, g, {}, {}, vertex).found THEN Throw
  ELSE IF children(h, g, vertex).threw THEN Throw
  ELSE LET rs == [child \in children(h, g, vertex).value |-> descendants(h, g, child)]
       IN IF \E child \in DOMAIN rs : rs[child].threw THEN Throw
          ELSE Return(UNION {{child} \cup rs[child].value : child \in DOMAIN rs})
descendants(h, g, vertex) ==
  IF isCyclic(h, g, FALSE).value THEN Throw
  ELSE IF children(h, g, vertex).threw THEN Throw
  ELSE LET rs == [child \in children(h, g, vertex).value |-> descendants(h, g, child)]
       IN IF \E child \in DOMAIN rs : rs[child].threw THEN Throw
          ELSE Return(UNION {{child} \cup rs[child].value : child \in DOMAIN rs})

\* -------------------------------------------------------- topological sort
\* The state of the sort: [result, visited, queue, indegrees].
\* The body of "for (const i in graph)" for the dequeued vertex v.
topologicalSortVisit(h, g, st, v, i) ==
  IF NonZero(h, g, v, i) /\ i \notin st.visited
    THEN LET d == st.indegrees[i] - Cell(h, g, v, i)
         IN IF d <= 0
              THEN [st EXCEPT !.indegrees[i] = d,
                              !.queue = Append(@, i),
                              !.visited = @ \cup {i}]
              ELSE [st EXCEPT !.indegrees[i] = d]
    ELSE st

RECURSIVE topologicalSortScan(_, _, _, _, _)
topologicalSortScan(h, g, st, v, k) ==
  IF k > Len(Keys(h, g)) THEN st
  ELSE topologicalSortScan(h, g, topologicalSortVisit(h, g, st, v, Keys(h, g)[k]), v, k + 1)

RECURSIVE topologicalSortLoop(_, _, _)
\* The loop taking the vertex from the end of the queue: queue.pop().
topologicalSortLoopPop(h, g, st) ==
  IF Len(st.queue) = 0 THEN st.result
  ELSE LET v == st.queue[Len(st.queue)]
       IN topologicalSortLoop(h, g,
            topologicalSortScan(h, g,
              [st EXCEPT !.queue = SubSeq(@, 1, Len(@) - 1), !.result = Append(@, v)], v, 1))
\* while (queue.length !== 0) { const v = queue.shift(); result.push(v); ... }
topologicalSortLoop(h, g, st) ==
  IF Len(st.queue) = 0 THEN st.result
  ELSE LET v == Head(st.queue)
       IN topologicalSortLoop(h, g,
            topologicalSortScan(h, g,
              [st EXCEPT !.queue = Tail(@), !.result = Append(@, v)], v, 1))

topologicalSort(h, g) ==
  IF isCyclic(h, g, FALSE).value THEN Throw
  ELSE LET vertices == Keys(h, g)
           indegrees == [v \in Range(vertices) |-> indegree(h, g, v, FALSE)]
           queue == SelectSeq(vertices, LAMBDA i : indegrees[i] = 0)
       IN Return(topologicalSortLoop(h, g,
                   [result |-> <<>>, visited |-> Range(queue),
                    queue |-> queue, indegrees |-> indegrees]))

\* ------------------------------------------------------------ the program
\* heap     the objects alive
\* graph    the graph the caller works on (its heap index)
\* held     an earlier graph the caller still holds a reference to (0: none)
\* snapshot the value held had when the caller kept the reference
\* call     the query called on graph: its arguments, under its name
\* result   the outcome of that query, under its name
\* frames   the call stack of a traversal run step by step, innermost last
VARIABLES heap, graph, held, snapshot, call, result, frames
vars == <<heap, graph, held, snapshot, call, result, frames>>

NoCall == [n \in {"none"} |-> <<>>]
NoResult == [n \in {"none"} |-> <<>>]

\* Garbage collection: the objects reachable from the graphs in roots, in
\* allocation order, and the new index of every one of them.
Compact(h, roots) ==
  LET rs == roots \ {0}
      live == rs \cup UNION {{h[r].val[u] : u \in DOMAIN h[r].val} : r \in rs}
      rank == [i \in live |-> Cardinality({j \in live : j <= i})]
      at == [k \in 1..Cardinality(live) |-> CHOOSE i \in live : rank[i] = k]
  IN [h |-> [k \in 1..Cardinality(live) |->
               IF at[k] \in rs
                 THEN [h[at[k]] EXCEPT !.val = [u \in DOMAIN h[at[k]].val |-> rank[h[at[k]].val[u]]]]
                 ELSE h[at[k]]],
      rank |-> [i \in live \cup {0} |-> IF i = 0 THEN 0 ELSE rank[i]]]

\* Every weight of the graph is one the model ranges over.
InRange(h, g) ==
  \A u \in DOMAIN h[g].val : \A v \in DOMAIN Row(h, g, u).val : Cell(h, g, u, v) \in Weights

\* ---------------------------------------------- a chain of transforms
\* A graph is created from a list of vertices and then replaced, call after
\* call, by the graph a transform returns.  The weights a caller writes are
\* 0 .. MaxSetWeight; a transform is not called when it would leave the
\* weights the model ranges over.
Returned(r) ==
  LET c == Compact(r.h, {r.ret, held}) IN
  /\ InRange(r.h, r.ret)
  /\ heap' = c.h
  /\ graph' = c.rank[r.ret]
  /\ held' = c.rank[held]
  /\ UNCHANGED <<snapshot, call, result, frames>>

\* Sequences of at most n vertex names, duplicates allowed.
NameSeqs(n) == UNION {[1..k -> Names(MaxNames)] : k \in 0..n}

Init ==
  /\ \E vs \in NameSeqs(MaxNames) :
       LET r == create(<<>>, vs) IN
       /\ heap = r.h
       /\ graph = r.ret
  /\ held = 0
  /\ snapshot = EmptyObj
  /\ call = NoCall
  /\ result = NoResult
  /\ frames = <<>>

\* The caller keeps a reference to its current graph.
Hold ==
  LET c == Compact(heap, {graph}) IN
  /\ held # graph
  /\ heap' = c.h
  /\ graph' = c.rank[graph]
  /\ held' = c.rank[graph]
  /\ snapshot' = Deref(heap, graph)
  /\ UNCHANGED <<call, result, frames>>

AddVertex ==
  \E v \in Names(MaxNames) : Returned(addVertex(heap, graph, v))

RemoveVertex ==
  \E v \in Names(MaxNames) : Returned(removeVertex(heap, graph, v))

AddEdge ==
  \E u \in Range(Keys(heap, graph)), v \in Range(Keys(heap, graph)), undirected \in BOOLEAN :
    Returned(addEdge(heap, graph, u, v, undirected))

SetEdge ==
  \E u \in Range(Keys(heap, graph)), v \in Range(Keys(heap, graph)),
     weight \in 0..MaxSetWeight, undirected \in BOOLEAN :
    Returned(setEdge(heap, graph, u, v, weight, undirected))

RemoveEdge ==
  \E u \in Range(Keys(heap, graph)), v \in Range(Keys(heap, graph)), undirected \in BOOLEAN :
    Returned(removeEdge(heap, graph, u, v, undirected))

MakeUndirected ==
  \E merge \in MergeFns : Returned(makeUndirected(heap, graph, merge))

ToDirected == Returned(toDirected(heap, graph))

Transpose == Returned(transpose(heap, graph))

Clone == Returned(clone(heap, graph))

Next ==
  \/ Hold
  \/ AddVertex
  \/ RemoveVertex
  \/ AddEdge
  \/ SetEdge
  \/ RemoveEdge
  \/ MakeUndirected
  \/ ToDirected
  \/ Transpose
  \/ Clone

Spec == Init /\ [][Next]_vars

\* -------------------------------------- a chain of undirected transforms
\* The chain of a caller who passes undirected: true to every call that
\* names an edge, and writes any weight the model ranges over.
AddEdgeUndirected ==
  \E u \in Range(Keys(heap, graph)), v \in Range(Keys(heap, graph)) :
    Returned(addEdge(heap, graph, u, v, TRUE))

SetEdgeUndirected ==
  \E u \in Range(Keys(heap, graph)), v \in Range(Keys(heap, graph)), weight \in Weights :
    Returned(setEdge(heap, graph, u, v, weight, TRUE))

RemoveEdgeUndirected ==
  \E u \in Range(Keys(heap, graph)), v \in Range(Keys(heap, graph)) :
    Returned(removeEdge(heap, graph, u, v, TRUE))

NextUndirected ==
  \/ AddEdgeUndirected
  \/ SetEdgeUndirected
  \/ RemoveEdgeUndirected
  \/ AddVertex
  \/ RemoveVertex
  \/ Transpose
  \/ MakeUndirected

SpecUndirected == Init /\ [][NextUndirected]_vars

\* ------------------------------------------------------------ the queries
\* The graphs the queries are called on: the graphs setEdge builds from
\* create(vs) in at most maxEdges calls, directed or undirected, with the
\* vertices in the order of vs.  The functions compare vertex names for
\* equality only, so the names themselves do not matter: vs is the first n
\* names.  The inputs are the unweighted graphs of at most MaxOrder vertices
\* and MaxEdges edges, and the weighted graphs of at most MaxWeightedOrder
\* vertices and MaxWeightedEdges edges.
Order(n) == [i \in 1..n |-> VertexNames[i]]
GraphOf(ks, w) ==
  ObjOf(ks, [u \in Range(ks) |->
              ObjOf(ks, [v \in Range(ks) |-> IF <<u, v>> \in DOMAIN w THEN w[<<u, v>>] ELSE 0])])
EdgeWeights == Weights \ {0}
\* The caller holds one of the graphs of the set inputs and has called nothing.
InitOn(inputs) ==
  /\ \E gv \in inputs :
       /\ heap = Load(gv).h
       /\ graph = Load(gv).ret
  /\ held = 0
  /\ snapshot = EmptyObj
  /\ call = NoCall
  /\ result = NoResult
  /\ frames = <<>>

\* The sets of at most n elements of C.
Subsets(C, n) == {S \in SUBSET C : Cardinality(S) <= n}
\* The caller holds a graph on the vertices ks of at most maxEdges edges.
InitDirected(ks, maxEdges, weights) ==
  \E S \in Subsets(Cells(ks), maxEdges) :
    \E w \in [S -> weights] : InitOn({GraphOf(ks, w)})
Mirror(w) ==
  [e \in DOMAIN w \cup {<<e[2], e[1]>> : e \in DOMAIN w} |->
     IF e \in DOMAIN w THEN w[e] ELSE w[<<e[2], e[1]>>]]
\* The caller holds an undirected graph of at most maxEdges edges, each
\* written in both directions.
InitUndirected(ks, maxEdges, weights) ==
  \E S \in Subsets({e \in Cells(ks) : IndexOf(ks, e[1]) <= IndexOf(ks, e[2])}, maxEdges) :
    \E w \in [S -> weights] : InitOn({GraphOf(ks, Mirror(w))})
InitUnweighted ==
  \E n \in 0..MaxOrder :
    \/ InitDirected(Order(n), MaxEdges, {1})
    \/ InitUndirected(Order(n), MaxEdges, {1})
InitWeighted ==
  \E n \in 0..MaxWeightedOrder :
    \/ InitDirected(Order(n), MaxWeightedEdges, EdgeWeights)
    \/ InitUndirected(Order(n), MaxWeightedEdges, EdgeWeights)
InitFn == InitUnweighted \/ InitWeighted

\* One query is called on the graph drawn; the queries are pure, so a second
\* call would only repeat the first.
Query(name, args, outcome) ==
  /\ call = NoCall
  /\ call' = [n \in {name} |-> args]
  /\ result' = [n \in {name} |-> outcome]
  /\ UNCHANGED <<heap, graph, held, snapshot, frames>>

Vertices == Range(Keys(heap, graph))

IsCyclic ==
  \E undirected \in BOOLEAN :
    Query("isCyclic", <<undirected>>, isCyclic(heap, graph, undirected))

TopologicalSort == Query("topologicalSort", <<>>, topologicalSort(heap, graph))

Ancestors ==
  \E v \in Vertices : Query("ancestors", <<v>>, ancestors(heap, graph, v))

Descendants ==
  \E v \in Vertices : Query("descendants", <<v>>, descendants(heap, graph, v))

Degree ==
  \E v \in Vertices, weighted \in BOOLEAN, undirected \in BOOLEAN :
    Query("degree", <<v, weighted, undirected>>, degree(heap, graph, v, weighted, undirected))

Indegree ==
  \E v \in Vertices, weighted \in BOOLEAN :
    Query("indegree", <<v, weighted>>, Return(indegree(heap, graph, v, weighted)))

Outdegree ==
  \E v \in Vertices, weighted \in BOOLEAN :
    Query("outdegree", <<v, weighted>>, Return(outdegree(heap, graph, v, weighted)))

Size ==
  \E undirected \in BOOLEAN : Query("size", <<undirected>>, size(heap, graph, undirected))

Edges ==
  \E undirected \in BOOLEAN : Query("edges", <<undirected>>, edges(heap, graph, undirected))

ToD3 ==
  \E undirected \in BOOLEAN : Query("toD3", <<undirected>>, toD3(heap, graph, undirected))

NextFn ==
  \/ IsCyclic
  \/ TopologicalSort
  \/ Ancestors
  \/ Descendants
  \/ Degree
  \/ Indegree
  \/ Outdegree
  \/ Size
  \/ Edges
  \/ ToD3

SpecFn == InitFn /\ [][NextFn]_vars

\* ------------------------------------------------- one call of a transform
\* The value of the graph a transform returned.
Value(r) == Deref(r.h, r.ret)
\* The outcome of a transform: the value of the graph returned, or a throw.
GraphOutcome(r) == IF r = Throw THEN Throw ELSE Return(Value(r))
AddVertexCall ==
  \E v \in Vertices \cup {VertexNames[Len(Keys(heap, graph)) + 1]} : Query("addVertex", <<v>>, GraphOutcome(addVertex(heap, graph, v)))

RemoveVertexCall ==
  \E v \in Vertices \cup {VertexNames[Len(Keys(heap, graph)) + 1]} : Query("removeVertex", <<v>>, GraphOutcome(removeVertex(heap, graph, v)))

MakeUndirectedCall ==
  \E merge \in MergeFns :
    Query("makeUndirected", <<merge>>, GraphOutcome(makeUndirected(heap, graph, merge)))

TransposeCall == Query("transpose", <<>>, GraphOutcome(transpose(heap, graph)))

ToDirectedCall == Query("toDirected", <<>>, GraphOutcome(toDirected(heap, graph)))

NextTx ==
  \/ AddVertexCall
  \/ RemoveVertexCall
  \/ MakeUndirectedCall
  \/ TransposeCall
  \/ ToDirectedCall

SpecTx == InitFn /\ [][NextTx]_vars

\* --------------------------------------- one call of addEdge or removeEdge
\* on an edge between vertices of the graph
AddEdgeCall ==
  \E u \in Vertices, v \in Vertices, undirected \in BOOLEAN :
    Query("addEdge", <<u, v, undirected>>, GraphOutcome(addEdge(heap, graph, u, v, undirected)))

RemoveEdgeCall ==
  \E u \in Vertices, v \in Vertices, undirected \in BOOLEAN :
    Query("removeEdge", <<u, v, undirected>>,
          GraphOutcome(removeEdge(heap, graph, u, v, undirected)))

NextEdge ==
  \/ AddEdgeCall
  \/ RemoveEdgeCall

SpecEdge == InitFn /\ [][NextEdge]_vars

\* ------------------------------ one call that names vertices, in the graph
\* or not
\* The vertices a call names: those of the graph and one that is not in it.
Absent == VertexNames[Len(Keys(heap, graph)) + 1]
Named == Vertices \cup {Absent}

GetEdge ==
  \E u \in Named, v \in Named : Query("getEdge", <<u, v>>, getEdge(heap, graph, u, v))

AddEdgeNamed ==
  \E u \in Named, v \in Named, undirected \in BOOLEAN :
    Query("addEdge", <<u, v, undirected>>, GraphOutcome(addEdge(heap, graph, u, v, undirected)))

SetEdgeNamed ==
  \E u \in Named, v \in Named, undirected \in BOOLEAN :
    Query("setEdge", <<u, v, undirected>>,
          GraphOutcome(setEdge(heap, graph, u, v, MaxWeight, undirected)))

RemoveEdgeNamed ==
  \E u \in Named, v \in Named, undirected \in BOOLEAN :
    Query("removeEdge", <<u, v, undirected>>,
          GraphOutcome(removeEdge(heap, graph, u, v, undirected)))

IndegreeNamed ==
  \E v \in Named, weighted \in BOOLEAN :
    Query("indegree", <<v, weighted>>, Return(indegree(heap, graph, v, weighted)))

OutdegreeNamed ==
  \E v \in Named, weighted \in BOOLEAN :
    Query("outdegree", <<v, weighted>>, Return(outdegree(heap, graph, v, weighted)))

Children ==
  \E v \in Named : Query("children", <<v>>, children(heap, graph, v))

Parents ==
  \E v \in Named : Query("parents", <<v>>, Return(parents(heap, graph, v)))

NextNamed ==
  \/ GetEdge
  \/ AddEdgeNamed
  \/ SetEdgeNamed
  \/ RemoveEdgeNamed
  \/ IndegreeNamed
  \/ OutdegreeNamed
  \/ Children
  \/ Parents

\* Whether a call fails on a vertex that is not in the graph does not depend
\* on the weights: the calls are made on the unweighted graphs.
SpecNamed == InitUnweighted /\ [][NextNamed]_vars

\* --------------------------------------- the degrees of fractional weights
\* Weights that are multiples of 1/2 are written in halves: 3 is the weight
\* 1.5.  A weighted degree is then a number of halves; an unweighted degree
\* counts edges and is the number itself.
HalfWeights == 1..(2 * MaxWeight - 1)
\* The caller holds a graph of at most MaxWeightedEdges edges weighted in
\* halves on at most MaxWeightedOrder vertices.
InitHalves ==
  \E n \in 0..MaxWeightedOrder : InitDirected(Order(n), MaxWeightedEdges, HalfWeights)

NextHalves ==
  \/ Degree
  \/ Indegree
  \/ Outdegree

SpecHalves == InitHalves /\ [][NextHalves]_vars

\* ------------------------------------------------- what the claims speak of
\* There is an edge from u to v in the caller's graph.
Edge(u, v) == Cell(heap, graph, u, v) # 0
\* The vertices reached from a vertex of S by zero or more edges, no edge
\* of the set skip being used.
RECURSIVE ReachFrom(_, _)
ReachFrom(S, skip) ==
  LET T == S \cup {v \in Vertices : \E u \in S : Edge(u, v) /\ <<u, v>> \notin skip}
  IN IF T = S THEN S ELSE ReachFrom(T, skip)
\* The vertices reached from v by a path of one or more edges.
ReachPlus(v) == ReachFrom({w \in Vertices : Edge(v, w)}, {})
\* The vertices from which v is reached by a path of one or more edges.
ReachedPlus(v) == {u \in Vertices : v \in ReachPlus(u)}
HasDirectedCycle == \E v \in Vertices : v \in ReachPlus(v)
HasLoop == \E v \in Vertices : Edge(v, v)
Symmetric == \A u \in Vertices, v \in Vertices : Cell(heap, graph, u, v) = Cell(heap, graph, v, u)
\* Some edge between two distinct vertices joins vertices that stay connected
\* without it: a cycle through at least three distinct vertices.
HasUndirectedCycle ==
  \E u \in Vertices, v \in Vertices :
    /\ u # v
    /\ Edge(u, v)
    /\ v \in ReachFrom({u}, {<<u, v>>, <<v, u>>})
Acyclic == ~isCyclic(heap, graph, FALSE).value
Position(s, x) == IndexOf(s, x)
Called(name) == name \in DOMAIN call
Args == call[CHOOSE n \in DOMAIN call : TRUE]
Outcome == result[CHOOSE n \in DOMAIN result : TRUE]

\* C1: on an acyclic graph, whatever its nonzero weights, topologicalSort
\* returns an order that holds both ends of every edge (u, v) and places u
\* before v.
C1_SortPutsEdgesForward ==
  (Called("topologicalSort") /\ Acyclic) =>
    /\ ~Outcome.threw
    /\ \A u \in Vertices, v \in Vertices :
         Edge(u, v) =>
           /\ u \in Range(Outcome.value)
           /\ v \in Range(Outcome.value)
           /\ Position(Outcome.value, u) < Position(Outcome.value, v)

\* C2: isCyclic in directed mode returns true exactly when some vertex is
\* reached from itself by a path of one or more edges (a loop included).
C2_DirectedCycleDetection ==
  (Called("isCyclic") /\ Args = <<FALSE>>) =>
    /\ ~Outcome.threw
    /\ Outcome.value = HasDirectedCycle
C2_Witness ==
  /\ Called("isCyclic") /\ Args = <<FALSE>>
  /\ ~Outcome.threw /\ Outcome.value
  /\ ~HasLoop
  /\ \E u \in Vertices, v \in Vertices : Edge(u, v) /\ ~Edge(v, u)

\* C3: on a graph for which isUndirected holds, isCyclic in undirected mode
\* returns true exactly when the graph has a loop or a cycle through at
\* least three distinct vertices; a reciprocal pair alone is no cycle.
C3_UndirectedCycleDetection ==
  (Called("isCyclic") /\ Args = <<TRUE>> /\ Symmetric) =>
    /\ ~Outcome.threw
    /\ Outcome.value = (HasLoop \/ HasUndirectedCycle)
C3_Witness ==
  /\ Called("isCyclic") /\ Args = <<TRUE>> /\ Symmetric
  /\ ~Outcome.threw /\ ~Outcome.value
  /\ \E u \in Vertices, v \in Vertices : u # v /\ Edge(u, v) /\ Edge(v, u)

\* C4: ancestors, descendants and topologicalSort throw exactly when
\* isCyclic(graph) is true, wherever the cycle lies.
C4_ClosuresThrowOnCycles ==
  (Called("ancestors") \/ Called("descendants") \/ Called("topologicalSort")) =>
    (Outcome.threw <=> isCyclic(heap, graph, FALSE).value)
C4_Witness ==
  /\ Called("descendants")
  /\ Outcome.threw
  /\ ReachPlus(Args[1]) = {}
  /\ ReachedPlus(Args[1]) = {}

\* C5: degree, size, edges, toD3 and isCyclic throw exactly when they are
\* called with undirected set on a graph that is not symmetric.
UndirectedOption ==
  IF Called("degree") THEN Args[3] ELSE Args[1]
C5_UndirectedPrecondition ==
  (Called("degree") \/ Called("size") \/ Called("edges") \/ Called("toD3") \/ Called("isCyclic")) =>
    (Outcome.threw <=> (UndirectedOption /\ ~Symmetric))
C5_Witness ==
  /\ Called("size") /\ UndirectedOption /\ ~Symmetric
  /\ Outcome.threw

\* C8: on an acyclic graph descendants(v) is the set of vertices reached
\* from v by one or more edges, ancestors(v) the set of vertices v is
\* reached from, and v is in neither.
C8_ClosuresAreReachability ==
  /\ (Called("descendants") /\ Acyclic) =>
       /\ ~Outcome.threw
       /\ Outcome.value = ReachPlus(Args[1])
       /\ Args[1] \notin Outcome.value
  /\ (Called("ancestors") /\ Acyclic) =>
       /\ ~Outcome.threw
       /\ Outcome.value = ReachedPlus(Args[1])
       /\ Args[1] \notin Outcome.value
C8_Witness ==
  /\ Called("descendants") /\ Acyclic
  /\ ~Outcome.threw
  /\ \E w \in Outcome.value : ~Edge(Args[1], w)

\* C9: on a symmetric graph the unweighted undirected degree of v is the
\* number of other vertices joined to v, plus 2 if v has a loop.
C9_UndirectedDegree ==
  (Called("degree") /\ Args[2] = FALSE /\ Args[3] = TRUE /\ Symmetric) =>
    /\ ~Outcome.threw
    /\ Outcome.value =
         Cardinality({w \in Vertices : w # Args[1] /\ Edge(Args[1], w)})
         + (IF Edge(Args[1], Args[1]) THEN 2 ELSE 0)
C9_Witness ==
  /\ Called("degree") /\ Args[2] = FALSE /\ Args[3] = TRUE /\ Symmetric
  /\ ~Outcome.threw
  /\ Edge(Args[1], Args[1])
  /\ \E w \in Vertices : w # Args[1] /\ Edge(Args[1], w)
  /\ Outcome.value = 3

\* C10: the unweighted outdegrees of all vertices and the unweighted
\* indegrees of all vertices both add up to size(graph).
SumOver(f) == SumSeq([i \in 1..Len(Keys(heap, graph)) |-> f[Keys(heap, graph)[i]]])
C10_DegreeSums ==
  (Called("size") /\ Args = <<FALSE>>) =>
    /\ ~Outcome.threw
    /\ SumOver([v \in Vertices |-> outdegree(heap, graph, v, FALSE)]) = Outcome.value
    /\ SumOver([v \in Vertices |-> indegree(heap, graph, v, FALSE)]) = Outcome.value
C10_Witness ==
  /\ Called("size") /\ Args = <<FALSE>>
  /\ ~Outcome.threw
  /\ Outcome.value = MaxEdges
  /\ HasLoop
  /\ \E u \in Vertices, v \in Vertices : u # v /\ Edge(u, v)

\* C6: every graph of a chain of transforms is square: every row has
\* exactly the vertices of the graph as its keys.
Square(h, g) ==
  \A u \in Range(Keys(h, g)) :
    /\ Range(Row(h, g, u).keys) = Range(Keys(h, g))
    /\ Len(Row(h, g, u).keys) = Len(Keys(h, g))
C6_GraphsAreSquare == Square(heap, graph)
C6_Witness ==
  /\ Square(heap, graph)
  /\ Len(Keys(heap, graph)) = MaxNames
  /\ \E u \in Vertices, v \in Vertices : u # v /\ Edge(u, v) /\ ~Edge(v, u)

\* C7: a graph passed to a transform keeps its vertices and weights, through
\* that call and through every later call on the graphs returned.
C7_InputsAreNotMutated == held # 0 => Deref(heap, held) = snapshot
C7_Witness ==
  /\ held # 0
  /\ held # graph
  /\ Deref(heap, held) = snapshot
  /\ Deref(heap, graph) # snapshot
  /\ Keys(heap, graph) # snapshot.keys

\* Two graph values are equal: the same vertices and the same weight on
\* every pair.
SameGraph(x, y) ==
  /\ Range(x.keys) = Range(y.keys)
  /\ \A u \in Range(x.keys) : x.val[u].val = y.val[u].val
NonNegative == \A u \in Vertices, v \in Vertices : Cell(heap, graph, u, v) >= 0

\* C11: when every weight of g is a non-negative integer, fromD3(toD3(g))
\* has the vertices of g and the weight of g on every pair.
C11_D3RoundTrip ==
  (Called("toD3") /\ Args = <<FALSE>> /\ NonNegative) =>
    /\ ~Outcome.threw
    /\ fromD3(heap, Outcome.value, FALSE) # Throw
    /\ SameGraph(Value(fromD3(heap, Outcome.value, FALSE)), Deref(heap, graph))
C11_Witness ==
  /\ Called("toD3") /\ Args = <<FALSE>> /\ NonNegative
  /\ \E u \in Vertices, v \in Vertices : Cell(heap, graph, u, v) = MaxWeight
  /\ \E u \in Vertices, v \in Vertices : Cell(heap, graph, u, v) = 1
  /\ Len(Outcome.value.links) = MaxWeight + 1
  /\ SameGraph(Value(fromD3(heap, Outcome.value, FALSE)), Deref(heap, graph))

\* The weight the graph value x holds on the pair (u, v).
Weight(x, u, v) == x.val[u].val[v]
\* The value of the caller's graph.
Input == Deref(heap, graph)

C13_AddEdgeOnAnEdgeIsNoOp ==
  (Called("addEdge") /\ Cell(heap, graph, Args[1], Args[2]) # 0) =>
    /\ ~Outcome.threw
    /\ SameGraph(Outcome.value, Input)
\* C13 amended: when g[u][v] is nonzero, addEdge(g, (u, v)) returns a graph
\* equal to g; so does addEdge(g, (u, v), {undirected: true}) when g[v][u]
\* is nonzero too, and when g[v][u] is 0 it returns g with the weight 1 on
\* (v, u) and nothing else changed.
C13_AddEdgeKeepsNonzeroWeights ==
  (Called("addEdge") /\ Cell(heap, graph, Args[1], Args[2]) # 0) =>
    /\ ~Outcome.threw
    /\ IF Args[3] /\ Cell(heap, graph, Args[2], Args[1]) = 0
         THEN /\ Weight(Outcome.value, Args[2], Args[1]) = 1
              /\ Range(Outcome.value.keys) = Vertices
              /\ \A u \in Vertices, v \in Vertices :
                   <<u, v>> # <<Args[2], Args[1]>> =>
                     Weight(Outcome.value, u, v) = Cell(heap, graph, u, v)
         ELSE SameGraph(Outcome.value, Input)
C13_Witness ==
  /\ Called("addEdge") /\ Args[3]
  /\ Cell(heap, graph, Args[1], Args[2]) = MaxWeight
  /\ Cell(heap, graph, Args[2], Args[1]) = -1
  /\ SameGraph(Outcome.value, Input)

\* C18: on an edge between vertices of g, adding the edge to the graph
\* addEdge returned, with the same options, returns an equal graph; so does
\* removing the edge from the graph removeEdge returned.
C18_AddAndRemoveAreIdempotent ==
  /\ Called("addEdge") =>
       /\ ~Outcome.threw
       /\ SameGraph(Value(addEdge(Load(Outcome.value).h, Load(Outcome.value).ret,
                                  Args[1], Args[2], Args[3])),
                    Outcome.value)
  /\ Called("removeEdge") =>
       /\ ~Outcome.threw
       /\ SameGraph(Value(removeEdge(Load(Outcome.value).h, Load(Outcome.value).ret,
                                     Args[1], Args[2], Args[3])),
                    Outcome.value)
C18_Witness ==
  /\ Called("removeEdge") /\ Args[3]
  /\ Args[1] # Args[2]
  /\ Cell(heap, graph, Args[1], Args[2]) = MaxWeight
  /\ Cell(heap, graph, Args[2], Args[1]) # 0
  /\ Weight(Outcome.value, Args[1], Args[2]) = 0
  /\ Weight(Outcome.value, Args[2], Args[1]) = 0

\* C14: for every merge function makeUndirected(g, merge) has the vertices
\* of g, holds the same weight on (u, v) and on (v, u) for every pair of
\* vertices, and satisfies isUndirected.
C14_MakeUndirectedIsUndirected ==
  Called("makeUndirected") =>
    /\ ~Outcome.threw
    /\ Range(Outcome.value.keys) = Vertices
    /\ \A u \in Vertices, v \in Vertices :
         Weight(Outcome.value, u, v) = Weight(Outcome.value, v, u)
    /\ isUndirected(Load(Outcome.value).h, Load(Outcome.value).ret)
C14_Witness ==
  /\ Called("makeUndirected") /\ Args = <<"sum">>
  /\ ~Outcome.threw
  /\ \E u \in Vertices, v \in Vertices :
       /\ Cell(heap, graph, u, v) = 1
       /\ Cell(heap, graph, v, u) = MaxWeight
       /\ Weight(Outcome.value, u, v) = 1 + MaxWeight
       /\ Weight(Outcome.value, v, u) = 1 + MaxWeight

\* C15: for every graph g that satisfies isUndirected and every merge
\* function, makeUndirected(g, merge) equals g: mutual edges of equal weight
\* keep their weight.
C15_MakeUndirectedKeepsUndirectedGraphs ==
  (Called("makeUndirected") /\ isUndirected(heap, graph)) =>
    /\ ~Outcome.threw
    /\ SameGraph(Outcome.value, Input)

\* C17: transpose(g) holds on (u, v) the weight g holds on (v, u), for all
\* vertices u and v of g, and transpose(transpose(g)) equals g.
C17_TransposeSwapsAndIsAnInvolution ==
  Called("transpose") =>
    /\ ~Outcome.threw
    /\ Range(Outcome.value.keys) = Vertices
    /\ \A u \in Vertices, v \in Vertices :
         Weight(Outcome.value, u, v) = Cell(heap, graph, v, u)
    /\ SameGraph(Value(transpose(Load(Outcome.value).h, Load(Outcome.value).ret)), Input)
C17_Witness ==
  /\ Called("transpose")
  /\ Len(Keys(heap, graph)) = MaxOrder
  /\ \E u \in Vertices, v \in Vertices :
       /\ Edge(u, v) /\ ~Edge(v, u)
       /\ Weight(Outcome.value, v, u) = 1
       /\ Weight(Outcome.value, u, v) = 0
  /\ ~SameGraph(Outcome.value, Input)

\* C19: removeVertex(g, v) is the graph over the vertices of g other than v
\* in which every remaining pair keeps its weight; no row and no column is
\* left for v, and when v is not a vertex of g the result equals g.
C19_RemoveVertexRestricts ==
  Called("removeVertex") =>
    LET rest == Vertices \ {Args[1]} IN
    /\ ~Outcome.threw
    /\ Range(Outcome.value.keys) = rest
    /\ \A u \in rest :
         /\ DOMAIN Outcome.value.val[u].val = rest
         /\ \A w \in rest : Weight(Outcome.value, u, w) = Cell(heap, graph, u, w)
    /\ Args[1] \notin Vertices => SameGraph(Outcome.value, Input)
C19_Witness ==
  /\ Called("removeVertex")
  /\ Args[1] \in Vertices
  /\ Len(Keys(heap, graph)) = MaxOrder
  /\ \E u \in Vertices : u # Args[1] /\ Edge(Args[1], u)
  /\ \E u \in Vertices : u # Args[1] /\ Edge(u, Args[1])
  /\ \E u \in Vertices, w \in Vertices :
       u # Args[1] /\ w # Args[1] /\ u # w /\ Weight(Outcome.value, u, w) = 1
  /\ Len(Outcome.value.keys) = MaxOrder - 1

\* C20: addVertex(g, v) returns g unchanged when v is a vertex of g;
\* otherwise the result has the vertices of g and v, the weight of g on
\* every pair of old vertices, and 0 everywhere in the row and in the column
\* of v.
C20_AddVertexExtendsWithZeros ==
  Called("addVertex") =>
    /\ ~Outcome.threw
    /\ IF Args[1] \in Vertices THEN SameGraph(Outcome.value, Input)
       ELSE LET all == Vertices \cup {Args[1]} IN
            /\ Range(Outcome.value.keys) = all
            /\ \A u \in all : DOMAIN Outcome.value.val[u].val = all
            /\ \A u \in Vertices, w \in Vertices :
                 Weight(Outcome.value, u, w) = Cell(heap, graph, u, w)
            /\ \A u \in all :
                 /\ Weight(Outcome.value, Args[1], u) = 0
                 /\ Weight(Outcome.value, u, Args[1]) = 0
C20_Witness ==
  /\ Called("addVertex")
  /\ Args[1] \notin Vertices
  /\ Len(Keys(heap, graph)) = MaxOrder
  /\ Len(Outcome.value.keys) = MaxOrder + 1
  /\ \E u \in Vertices, w \in Vertices : u # w /\ Weight(Outcome.value, u, w) = 1
  /\ \A u \in Vertices : Weight(Outcome.value, u, Args[1]) = 0

\* C16 as claimed: a call of getEdge, indegree, outdegree, children,
\* parents, addEdge, setEdge or removeEdge returns a value and raises no
\* error, also when it names a vertex that is not in the graph and when the
\* graph has no vertices.
C16_NoCallFails ==
  ~Called("none") => ~Outcome.threw
\* The call names an edge whose row is undefined: graph[u], or graph[v] when
\* undirected: true makes the call access the reverse edge.
NamesMissingRow ==
  \/ Args[1] \notin Vertices
  \/ Len(Args) = 3 /\ Args[3] /\ Args[2] \notin Vertices
\* C16 amended: a call whose vertices are all in the graph raises no error.
\* indegree, outdegree and parents raise none for a vertex that is not in
\* the graph either, nor does children on a graph with no vertices.  getEdge,
\* addEdge, setEdge and removeEdge raise a TypeError exactly when the first
\* vertex of the edge is not in the graph or, for the three transforms under
\* undirected: true, the second is not; children raises a TypeError exactly
\* for a vertex that is not in a graph that has vertices.
C16_CallsFailOnMissingRowsOnly ==
  ~Called("none") =>
    (Outcome.threw <=>
       \/ /\ Called("getEdge") \/ Called("addEdge") \/ Called("setEdge") \/ Called("removeEdge")
          /\ NamesMissingRow
       \/ /\ Called("children")
          /\ Args[1] \notin Vertices
          /\ Vertices # {})
C16_Witness ==
  /\ Called("setEdge")
  /\ Args[1] \in Vertices /\ Args[2] \notin Vertices /\ ~Args[3]
  /\ ~Outcome.threw
  /\ Len(Keys(heap, graph)) = MaxOrder

\* The caller's graph is {a: {a: 1.5}}, the weight written in halves.
LoopOfOneAndAHalf == Input = GraphOf(<<"a">>, [e \in {<<"a", "a">>} |-> 3])

\* C21 as claimed: degree({a: {a: 1.5}}, "a") with default options returns 3.
C21_DefaultDegreeOfLoopIsThree ==
  (Called("degree") /\ Args = <<"a", FALSE, FALSE>> /\ LoopOfOneAndAHalf) =>
    /\ ~Outcome.threw
    /\ Outcome.value = 3
\* C21 amended: degree({a: {a: 1.5}}, "a") with default options returns 2,
\* the self-loop being counted twice, as one incoming and one outgoing edge;
\* with weighted: true it returns the weighted sum 1.5 + 1.5 = 3, which is 6
\* halves.
C21_DefaultDegreeCountsLoopTwice ==
  (Called("degree") /\ Args[1] = "a" /\ ~Args[3] /\ LoopOfOneAndAHalf) =>
    /\ ~Outcome.threw
    /\ Outcome.value = IF Args[2] THEN 6 ELSE 2
C21_Witness ==
  /\ Called("degree") /\ Args = <<"a", FALSE, FALSE>> /\ LoopOfOneAndAHalf
  /\ Outcome.value = 2

\* C22: on an acyclic graph, whatever its nonzero weights, topologicalSort
\* returns every vertex of the graph exactly once.
C22_SortIsAPermutation ==
  (Called("topologicalSort") /\ Acyclic) =>
    /\ ~Outcome.threw
    /\ Range(Outcome.value) = Vertices
    /\ Len(Outcome.value) = Cardinality(Vertices)

\* The vertices of indegree 0, in vertex iteration order.
Sources == SelectSeq(Keys(heap, graph), LAMBDA v : \A u \in Vertices : ~Edge(u, v))
\* C25: on an acyclic graph the result of topologicalSort starts with the
\* vertices of indegree 0 in vertex iteration order, every vertex that has
\* a parent coming after them; with no edges it is the vertices in
\* iteration order.
C25_SourcesComeFirst ==
  (Called("topologicalSort") /\ Acyclic) =>
    /\ ~Outcome.threw
    /\ Len(Outcome.value) >= Len(Sources)
    /\ SubSeq(Outcome.value, 1, Len(Sources)) = Sources
    /\ (\A u \in Vertices, v \in Vertices : ~Edge(u, v)) => Outcome.value = Keys(heap, graph)
C25_Witness ==
  /\ Called("topologicalSort") /\ Acyclic
  /\ Len(Keys(heap, graph)) = MaxOrder
  /\ Len(Sources) = 2
  /\ Edge(Keys(heap, graph)[3], Keys(heap, graph)[2])
  /\ Outcome.value = <<Keys(heap, graph)[1], Keys(heap, graph)[3], Keys(heap, graph)[2]>>

\* C28: on a graph that satisfies isUndirected, the undirected degrees of
\* all vertices add up to twice the undirected size.
C28_UndirectedDegreesSumToTwiceSize ==
  (Called("size") /\ Args = <<TRUE>> /\ isUndirected(heap, graph)) =>
    /\ ~Outcome.threw
    /\ \A v \in Vertices : ~degree(heap, graph, v, FALSE, TRUE).threw
    /\ SumOver([v \in Vertices |-> degree(heap, graph, v, FALSE, TRUE).value])
         = 2 * Outcome.value
C28_Witness ==
  /\ Called("size") /\ Args = <<TRUE>> /\ isUndirected(heap, graph)
  /\ HasLoop
  /\ \E u \in Vertices, v \in Vertices : u # v /\ Edge(u, v)
  /\ Outcome.value = MaxEdges
  /\ SumOver([v \in Vertices |-> degree(heap, graph, v, FALSE, TRUE).value]) = 2 * MaxEdges

\* C24 as claimed: for every pair of vertices (u, v), u = v included,
\* makeUndirected(g, m) holds on (u, v) and on (v, u) the one nonzero weight
\* when exactly one of g[u][v], g[v][u] is nonzero, and m(g[u][v], g[v][u])
\* in every other case.
C24_MergeDecidesEveryOtherPair ==
  Called("makeUndirected") =>
    /\ ~Outcome.threw
    /\ \A p \in Range(vertexPairs(heap, graph)) :
         LET a == Cell(heap, graph, p[1], p[2])
             b == Cell(heap, graph, p[2], p[1])
             weight == IF (a = 0) # (b = 0) THEN (IF a # 0 THEN a ELSE b)
                       ELSE Merge(Args[1], a, b)
         IN /\ Weight(Outcome.value, p[1], p[2]) = weight
            /\ Weight(Outcome.value, p[2], p[1]) = weight
\* C24 amended: for every pair of distinct vertices (u, v),
\* makeUndirected(g, m) holds on (u, v) and on (v, u) the one nonzero weight
\* when exactly one of g[u][v], g[v][u] is nonzero, m(g[u][v], g[v][u]) when
\* both are nonzero and 0 when both are 0; a self-pair (u, u) keeps the
\* weight g[u][u], m not being applied.
C24_MergeDecidesMutualEdges ==
  Called("makeUndirected") =>
    /\ ~Outcome.threw
    /\ \A p \in Range(vertexPairs(heap, graph)) :
         LET a == Cell(heap, graph, p[1], p[2])
             b == Cell(heap, graph, p[2], p[1])
             weight == IF p[1] = p[2] THEN a
                       ELSE IF a # 0 /\ b # 0 THEN Merge(Args[1], a, b)
                       ELSE IF a # 0 THEN a ELSE b
         IN /\ Weight(Outcome.value, p[1], p[2]) = weight
            /\ Weight(Outcome.value, p[2], p[1]) = weight
C24_Witness ==
  /\ Called("makeUndirected") /\ Args = <<"min">>
  /\ \E u \in Vertices, v \in Vertices :
       /\ u # v
       /\ Cell(heap, graph, u, v) = MaxWeight
       /\ Cell(heap, graph, v, u) = -1
       /\ Weight(Outcome.value, u, v) = -1
       /\ Weight(Outcome.value, v, u) = -1

\* t holds the weight of the caller's graph wherever v is at or after u in
\* vertex iteration order, and 0 everywhere else.
IsUpperHalf(t) ==
  /\ t.keys = Keys(heap, graph)
  /\ \A u \in Vertices, v \in Vertices :
       Weight(t, u, v) = IF IndexOf(Keys(heap, graph), v) >= IndexOf(Keys(heap, graph), u)
                           THEN Cell(heap, graph, u, v) ELSE 0
\* C26: toDirected(g) returns g unchanged when isUndirected(g) is false;
\* when it is true it returns the graph over the same vertices that keeps
\* g[u][v] wherever v is at or after u in vertex iteration order and holds
\* 0 everywhere else.
C26_ToDirectedKeepsUpperHalf ==
  Called("toDirected") =>
    /\ ~Outcome.threw
    /\ IF isUndirected(heap, graph) THEN IsUpperHalf(Outcome.value)
       ELSE Outcome.value = Input
C26_Witness ==
  /\ Called("toDirected") /\ isUndirected(heap, graph)
  /\ Len(Keys(heap, graph)) = MaxOrder
  /\ HasLoop
  /\ \E u \in Vertices, v \in Vertices :
       /\ u # v /\ Edge(u, v)
       /\ Weight(Outcome.value, u, v) # 0
       /\ Weight(Outcome.value, v, u) = 0
  /\ IsUpperHalf(Outcome.value)

\* C27: for every graph g that satisfies isUndirected,
\* makeUndirected(toDirected(g)) with the default merge equals g.
C27_MakeUndirectedRestoresToDirected ==
  (Called("toDirected") /\ isUndirected(heap, graph)) =>
    /\ ~Outcome.threw
    /\ SameGraph(Value(makeUndirected(Load(Outcome.value).h, Load(Outcome.value).ret, "max")),
                 Input)
C27_Witness ==
  /\ Called("toDirected") /\ isUndirected(heap, graph)
  /\ Len(Keys(heap, graph)) = MaxOrder
  /\ Edge(Keys(heap, graph)[1], Keys(heap, graph)[3])
  /\ ~SameGraph(Outcome.value, Input)
  /\ SameGraph(Value(makeUndirected(Load(Outcome.value).h, Load(Outcome.value).ret, "max")),
               Input)

\* C23: every graph of a chain that starts from create(vs) and calls
\* addEdge, setEdge and removeEdge with undirected: true only, and addVertex,
\* removeVertex, transpose and makeUndirected, satisfies isUndirected.
C23_UndirectedChainsStayUndirected == isUndirected(heap, graph)
C23_Witness ==
  /\ isUndirected(heap, graph)
  /\ Keys(heap, graph) = <<"b", "a">>
  /\ Cell(heap, graph, "a", "b") = MaxWeight
  /\ Cell(heap, graph, "b", "a") = MaxWeight
  /\ Cell(heap, graph, "a", "a") = -1
  /\ Cell(heap, graph, "b", "b") = 0

\* ------------------------------------------------ calls of fromD3
\* The sequences of at most n elements of S.
SeqsUpTo(S, n) == UNION {[1..k -> S] : k \in 0..n}
\* D3 graphs of at most MaxNodes nodes and MaxLinks links between them.
D3Inputs ==
  UNION {{[nodes |-> Order(n), links |-> ls] :
            ls \in SeqsUpTo({[source |-> e[1], target |-> e[2]] : e \in Cells(Order(n))},
                            MaxLinks)} :
           n \in 0..MaxNodes}

InitD3 ==
  /\ heap = <<>>
  /\ graph = 0
  /\ held = 0
  /\ snapshot = EmptyObj
  /\ call = NoCall
  /\ result = NoResult
  /\ frames = <<>>

FromD3 ==
  /\ call = NoCall
  /\ \E d3Graph \in D3Inputs, undirected \in BOOLEAN :
       Query("fromD3", <<d3Graph, undirected>>, GraphOutcome(fromD3(heap, d3Graph, undirected)))

NextD3 == FromD3

SpecD3 == InitD3 /\ [][NextD3]_vars

\* The number of links of the sequence from u to v.
Links(links, u, v) ==
  Len(SelectSeq(links, LAMBDA l : l.source = u /\ l.target = v))

\* C29: fromD3(d) gives every pair (u, v) of listed nodes the number of
\* links from u to v as its weight; with undirected: true a pair (u, v) of
\* distinct nodes gets the links u->v plus the links v->u, and (u, u) gets
\* the links u->u counted once.
C29_FromD3CountsLinks ==
  Called("fromD3") =>
    /\ ~Outcome.threw
    /\ Outcome.value.keys = Args[1].nodes
    /\ \A u \in Range(Args[1].nodes), v \in Range(Args[1].nodes) :
         Weight(Outcome.value, u, v) =
           IF Args[2] /\ u # v
             THEN Links(Args[1].links, u, v) + Links(Args[1].links, v, u)
             ELSE Links(Args[1].links, u, v)
C29_Witness ==
  /\ Called("fromD3") /\ Args[2]
  /\ Links(Args[1].links, "a", "a") = 1
  /\ Links(Args[1].links, "a", "b") = 1
  /\ Links(Args[1].links, "b", "a") = 1
  /\ Weight(Outcome.value, "a", "a") = 1
  /\ Weight(Outcome.value, "a", "b") = 2
  /\ Weight(Outcome.value, "b", "a") = 2
  /\ Weight(Outcome.value, "b", "b") = 0

\* ------------------------------------------- the traversals, step by step
\* A traversal runs as a stack of frames, one per call under way. A step is
\* one iteration of a loop, one call or one return of the frame on top.
\* A step leaves the stack frames, and the outcome once the stack is empty.
Running(fs) == [frames |-> fs, done |-> FALSE, outcome |-> Throw]
\* The frame on top moves on as f.
Goto(fs, f) == Running([fs EXCEPT ![Len(fs)] = f])
\* The frame on top moves on as f and calls: the callee's frame goes on top.
Enter(fs, f, callee) == Running(Append([fs EXCEPT ![Len(fs)] = f], callee))
\* return x: the caller finds x in its field, or the outermost call ends.
Leave(fs, field, x) ==
  LET rest == SubSeq(fs, 1, Len(fs) - 1) IN
  IF rest = <<>> THEN [frames |-> <<>>, done |-> TRUE, outcome |-> Return(x)]
  ELSE Running([rest EXCEPT ![Len(rest)][field] = x])
\* throw: nothing catches, every frame is left.
Raise == [frames |-> <<>>, done |-> TRUE, outcome |-> Throw]

\* A frame holds the arguments and the locals of its call.
isCyclicFrame(g, undirected) ==
  [fn |-> "isCyclic", pc |-> "start", graph |-> g, undirected |-> undirected, k |-> 1,
   visited |-> {}, path |-> {}, got |-> FALSE]
searchFrame(fn, g, parent, vertex) ==
  [fn |-> fn, pc |-> "start", graph |-> g, parent |-> parent, vertex |-> vertex, k |-> 1,
   got |-> FALSE]
closureFrame(fn, g, vertex) ==
  [fn |-> fn, pc |-> "start", graph |-> g, vertex |-> vertex, todo |-> <<>>, k |-> 1,
   acc |-> {}, got |-> FALSE, sub |-> {}]
sortFrame(g) ==
  [fn |-> "topologicalSort", pc |-> "start", graph |-> g, got |-> FALSE,
   st |-> [result |-> <<>>, visited |-> {}, queue |-> <<>>, indegrees |-> <<>>]]

\* The frame of the isCyclic call whose sets visited and path the searches
\* share: the innermost one.
Owner(fs) ==
  CHOOSE j \in 1..Len(fs) :
    /\ fs[j].fn = "isCyclic"
    /\ \A i \in (j + 1)..Len(fs) : fs[i].fn # "isCyclic"
\* The keys "for (const i in graph[vertex])" goes through.
RowKeys(h, g, vertex) == IF HasVertex(h, g, vertex) THEN Row(h, g, vertex).keys ELSE <<>>

\* isCyclic staying on a vertex already visited.
isCyclicStepStay(h, fs) ==
  LET f == fs[Len(fs)]
      g == f.graph
      ks == Keys(h, g)
  IN CASE f.pc = "start" ->
            IF f.undirected /\ ~isUndirected(h, g) THEN Raise
            ELSE Goto(fs, [f EXCEPT !.pc = "loop"])
       [] f.pc = "loop" ->
            IF f.k > Len(ks) THEN Leave(fs, "got", FALSE)
            ELSE IF ks[f.k] \in f.visited THEN Goto(fs, f)
            ELSE Enter(fs, [f EXCEPT !.pc = "called", !.path = {}],
                       searchFrame(IF f.undirected THEN "_isCyclicUndirected"
                                   ELSE "_isCyclicDirected", f.graph, Undefined, ks[f.k]))
       [] f.pc = "called" ->
            IF f.got THEN Leave(fs, "got", TRUE)
            ELSE Goto(fs, [f EXCEPT !.pc = "loop", !.k = @ + 1])
\* One step of isCyclic: the check of the option, then for (const i in graph).
isCyclicStep(h, fs) ==
  LET f == fs[Len(fs)]
      g == f.graph
      ks == Keys(h, g)
  IN CASE f.pc = "start" ->
            IF f.undirected /\ ~isUndirected(h, g) THEN Raise
            ELSE Goto(fs, [f EXCEPT !.pc = "loop"])
       [] f.pc = "loop" ->
            IF f.k > Len(ks) THEN Leave(fs, "got", FALSE)
            ELSE IF ks[f.k] \in f.visited THEN Goto(fs, [f EXCEPT !.k = @ + 1])
            ELSE Enter(fs, [f EXCEPT !.pc = "called", !.path = {}],
                       searchFrame(IF f.undirected THEN "_isCyclicUndirected"
                                   ELSE "_isCyclicDirected", f.graph, Undefined, ks[f.k]))
       [] f.pc = "called" ->
            IF f.got THEN Leave(fs, "got", TRUE)
            ELSE Goto(fs, [f EXCEPT !.pc = "loop", !.k = @ + 1])

\* One step of _isCyclicDirected on the sets of the isCyclic call it serves.
isCyclicDirectedStep(h, fs) ==
  LET f == fs[Len(fs)]
      g == f.graph
      j == Owner(fs)
      ks == RowKeys(h, g, f.vertex)
  IN CASE f.pc = "start" ->
            Goto([fs EXCEPT ![j].visited = @ \cup {f.vertex},
                            ![j].path = @ \cup {f.vertex}],
                 [f EXCEPT !.pc = "loop"])
       [] f.pc = "loop" ->
            IF f.k > Len(ks)
              THEN Leave([fs EXCEPT ![j].path = @ \ {f.vertex}], "got", FALSE)
            ELSE IF Cell(h, g, f.vertex, ks[f.k]) # 0
              THEN IF ks[f.k] \in fs[j].path THEN Leave(fs, "got", TRUE)
                   ELSE Enter(fs, [f EXCEPT !.pc = "called"],
                              searchFrame("_isCyclicDirected", f.graph, Undefined, ks[f.k]))
            ELSE Goto(fs, [f EXCEPT !.k = @ + 1])
       [] f.pc = "called" ->
            IF f.got THEN Leave(fs, "got", TRUE)
            ELSE Goto(fs, [f EXCEPT !.pc = "loop", !.k = @ + 1])

\* One step of _isCyclicUndirected.
isCyclicUndirectedStep(h, fs) ==
  LET f == fs[Len(fs)]
      g == f.graph
      j == Owner(fs)
      ks == RowKeys(h, g, f.vertex)
  IN CASE f.pc = "start" ->
            Goto([fs EXCEPT ![j].visited = @ \cup {f.vertex}], [f EXCEPT !.pc = "loop"])
       [] f.pc = "loop" ->
            IF f.k > Len(ks) THEN Leave(fs, "got", FALSE)
            ELSE IF Cell(h, g, f.vertex, ks[f.k]) # 0
              THEN IF ks[f.k] \in fs[j].visited
                     THEN IF ks[f.k] # f.parent THEN Leave(fs, "got", TRUE)
                          ELSE Goto(fs, [f EXCEPT !.k = @ + 1])
                   ELSE Enter(fs, [f EXCEPT !.pc = "called"],
                              searchFrame("_isCyclicUndirected", f.graph, f.vertex, ks[f.k]))
            ELSE Goto(fs, [f EXCEPT !.k = @ + 1])
       [] f.pc = "called" ->
            IF f.got THEN Leave(fs, "got", TRUE)
            ELSE Goto(fs, [f EXCEPT !.pc = "loop", !.k = @ + 1])

\* One step of ancestors or descendants: the call of isCyclic, the throw,
\* then the loop over the set next, in the order the set was filled.
closureStep(h, fs, next) ==
  LET f == fs[Len(fs)]
      g == f.graph
  IN
  CASE f.pc = "start" -> Enter(fs, [f EXCEPT !.pc = "checked"], isCyclicFrame(f.graph, FALSE))
    [] f.pc = "checked" ->
         IF f.got \/ next.threw THEN Raise
         ELSE Goto(fs, [f EXCEPT !.pc = "loop",
                                 !.todo = SelectSeq(Keys(h, g), LAMBDA v : v \in next.value)])
    [] f.pc = "loop" ->
         IF f.k > Len(f.todo) THEN Leave(fs, "sub", f.acc)
         ELSE Enter(fs, [f EXCEPT !.pc = "recursed"], closureFrame(f.fn, f.graph, f.todo[f.k]))
    [] f.pc = "recursed" ->
         Goto(fs, [f EXCEPT !.pc = "loop", !.k = @ + 1,
                            !.acc = @ \cup {f.todo[f.k]} \cup f.sub])
ancestorsStep(h, fs) ==
  closureStep(h, fs, Return(parents(h, fs[Len(fs)].graph, fs[Len(fs)].vertex)))
descendantsStep(h, fs) ==
  closureStep(h, fs, children(h, fs[Len(fs)].graph, fs[Len(fs)].vertex))

\* One step of topologicalSort: the call of isCyclic, the throw and the two
\* loops that fill indegrees and queue, then one turn of the while loop.
topologicalSortStep(h, fs) ==
  LET f == fs[Len(fs)]
      g == f.graph
  IN
  CASE f.pc = "start" -> Enter(fs, [f EXCEPT !.pc = "checked"], isCyclicFrame(f.graph, FALSE))
    [] f.pc = "checked" ->
         IF f.got THEN Raise
         ELSE LET vertices == Keys(h, g)
                  indegrees == [v \in Range(vertices) |-> indegree(h, g, v, FALSE)]
                  queue == SelectSeq(vertices, LAMBDA i : indegrees[i] = 0)
              IN Goto(fs, [f EXCEPT !.pc = "while",
                                    !.st = [result |-> <<>>, visited |-> Range(queue),
                                            queue |-> queue, indegrees |-> indegrees]])
    [] f.pc = "while" ->
         IF Len(f.st.queue) = 0 THEN Leave(fs, "got", f.st.result)
         ELSE LET v == Head(f.st.queue)
              IN Goto(fs, [f EXCEPT !.st =
                             topologicalSortScan(h, g,
                               [f.st EXCEPT !.queue = Tail(@), !.result = Append(@, v)], v, 1)])

\* A traversal is called on the graph drawn: its frame is the whole stack.
Start(name, args, frame) ==
  /\ call = NoCall
  /\ call' = [n \in {name} |-> args]
  /\ frames' = <<frame>>
  /\ UNCHANGED <<heap, graph, held, snapshot, result>>

CallIsCyclic ==
  \E undirected \in BOOLEAN : Start("isCyclic", <<undirected>>, isCyclicFrame(graph, undirected))
CallAncestors ==
  \E v \in Vertices : Start("ancestors", <<v>>, closureFrame("ancestors", graph, v))
CallDescendants ==
  \E v \in Vertices : Start("descendants", <<v>>, closureFrame("descendants", graph, v))
CallTopologicalSort == Start("topologicalSort", <<>>, sortFrame(graph))

\* The frame on top, a frame of fn, takes the step r.
Step(fn, r) ==
  /\ frames # <<>>
  /\ frames[Len(frames)].fn = fn
  /\ frames' = r.frames
  /\ result' = IF r.done THEN [n \in DOMAIN call |-> r.outcome] ELSE result
  /\ UNCHANGED <<heap, graph, held, snapshot, call>>

StepIsCyclic == Step("isCyclic", isCyclicStep(heap, frames))
StepIsCyclicDirected == Step("_isCyclicDirected", isCyclicDirectedStep(heap, frames))
StepIsCyclicUndirected == Step("_isCyclicUndirected", isCyclicUndirectedStep(heap, frames))
StepAncestors == Step("ancestors", ancestorsStep(heap, frames))
StepDescendants == Step("descendants", descendantsStep(heap, frames))
StepTopologicalSort == Step("topologicalSort", topologicalSortStep(heap, frames))

NextSteps ==
  \/ CallIsCyclic
  \/ CallAncestors
  \/ CallDescendants
  \/ CallTopologicalSort
  \/ StepIsCyclic
  \/ StepIsCyclicDirected
  \/ StepIsCyclicUndirected
  \/ StepAncestors
  \/ StepDescendants
  \/ StepTopologicalSort

\* The caller holds an unweighted graph of at most MaxOrder vertices: a
\* directed one of at most MaxWeightedEdges edges, or an undirected one of at
\* most MaxEdges edges.
InitSteps ==
  \E n \in 0..MaxOrder :
    \/ InitDirected(Order(n), MaxWeightedEdges, {1})
    \/ InitUndirected(Order(n), MaxEdges, {1})

\* The program is one thread: while a call is under way its next step is taken.
SpecSteps == InitSteps /\ [][NextSteps]_vars /\ WF_vars(NextSteps)

\* The call made has ended, with a value or with an error.
Ended == result # NoResult
\* The steps give the outcome the function gives when it is run at once.
StepsAgree ==
  Ended =>
    /\ Called("isCyclic") => Outcome = isCyclic(heap, graph, Args[1])
    /\ Called("ancestors") => Outcome = ancestors(heap, graph, Args[1])
    /\ Called("descendants") => Outcome = descendants(heap, graph, Args[1])
    /\ Called("topologicalSort") => Outcome = topologicalSort(heap, graph)

\* C30: every traversal ends on every finite graph: a call of isCyclic, in
\* either mode and on cyclic graphs too, of ancestors, of descendants or of
\* topologicalSort is followed by its end, a result when the graph is acyclic
\* and an error when it has a cycle.
C30_TraversalsEnd ==
  /\ (call # NoCall) ~> Ended
  /\ [](Ended /\ ~Called("isCyclic") => (Outcome.threw <=> ~Acyclic))
  /\ [](Ended /\ Called("isCyclic") =>
          (Outcome.threw <=> (Args[1] /\ ~isUndirected(heap, graph))))
C30_Witness ==
  /\ Called("descendants") /\ Args = <<"a">>
  /\ Ended /\ frames = <<>>
  /\ ~Outcome.threw
  /\ Outcome.value = {"b", "c"}
  /\ Edge("a", "b") /\ Edge("b", "c") /\ ~Edge("a", "c")

====
